---- MODULE Spec2Model ----
(***************************************************************************)
(* Model of search::Query (src/search/search_query.cpp): the viewport      *)
(* offset cache, the query initialisation, the trie matching loop with its *)
(* feature filter, the candidate queues and FlushResults.                  *)
(***************************************************************************)
EXTENDS Integers, Sequences, FiniteSets, TLC

\* ------------------------------------------------------------------ bounds
\* Largest number of tiles (mwm files) registered in the index at once.
MaxTiles == 2
\* Largest resultsNeeded passed to Search.
MaxResultsNeeded == 2
\* The longest generated query splits into TokenCap + MaxExtraTokens tokens.
MaxExtraTokens == 2

\* ------------------------------------------------------- program constants
\* search_query.cpp:167  if (m_tokens.size() > 31) m_tokens.resize(31);
TokenCap == 31
\* search_query.cpp:56   m_viewportExtended.Scale(3);
ViewportScaleFactor == 3
\* search_query.cpp:96   viewScale + 7
ScaleBias == 7
\* search_query.cpp:170  three criteria: rank, viewport distance, distance
m_qCount == 3

\* ------------------------------------------------------------ small helpers
Min(a, b) == IF a < b THEN a ELSE b
Max(a, b) == IF a > b THEN a ELSE b
Abs(a) == IF a < 0 THEN -a ELSE a
Last(s) == s[Len(s)]
Front(s) == SubSeq(s, 1, Len(s) - 1)
Range(s) == {s[i] : i \in 1..Len(s)}

RECURSIVE Concat(_)
Concat(ss) == IF ss = <<>> THEN <<>> ELSE Head(ss) \o Concat(Tail(ss))

RECURSIVE Repeat(_, _)
Repeat(s, n) == IF n = 0 THEN <<>> ELSE s \o Repeat(s, n - 1)

\* std::sort over integers (ascending), duplicates kept.
RECURSIVE InsertSorted(_, _)
InsertSorted(x, s) ==
  IF s = <<>> THEN <<x>>
  ELSE IF x <= Head(s) THEN <<x>> \o s
  ELSE <<Head(s)>> \o InsertSorted(x, Tail(s))

RECURSIVE SortInts(_)
SortInts(s) == IF s = <<>> THEN <<>> ELSE InsertSorted(Head(s), SortInts(Tail(s)))

\* ---------------------------------------------------------------- geometry
\* m2::RectD, on an integer grid.
Rect(x1, y1, x2, y2) == [minX |-> x1, minY |-> y1, maxX |-> x2, maxY |-> y2]

\* m2::RectD::GetEmptyRect(): min > max on both axes.
EmptyRect == Rect(99, 99, -99, -99)

\* m2::Rect::IsIntersect (closed rectangles).
IsIntersect(a, b) ==
  ~(a.maxX < b.minX \/ a.minX > b.maxX \/ a.maxY < b.minY \/ a.minY > b.maxY)

\* m2::Rect::Scale(k) about the centre: half sizes are multiplied by k.
\* With k = 3: min' = c - 3h = (3 min - max + min + max)/2 - ... = 2 min - max.
RectScale(r, k) ==
  LET hx2 == (r.maxX - r.minX) * k      \* twice the new half size
      hy2 == (r.maxY - r.minY) * k
      cx2 == r.minX + r.maxX            \* twice the centre
      cy2 == r.minY + r.maxY
  IN Rect((cx2 - hx2) \div 2, (cy2 - hy2) \div 2, (cx2 + hx2) \div 2, (cy2 + hy2) \div 2)

\* Twice the Manhattan distance from the centre of r to point p.
CenterDistance(r, p) == Abs(2 * p[1] - (r.minX + r.maxX)) + Abs(2 * p[2] - (r.minY + r.maxY))
PointDistance(p, q) == 2 * (Abs(p[1] - q[1]) + Abs(p[2] - q[2]))

\* scales::GetScaleLevel(rect): the wider the rectangle, the lower the level.
GetScaleLevel(r) == Max(0, 12 - (r.maxX - r.minX))

\* Cell numbering of the covering: one cell per grid square, column-major.
CellId(x, y) == x * 16 + y

\* covering::CoveringGetter(viewport).Get(): half-open cell intervals, one per
\* grid column of the rectangle.
CoveringIntervals(r) ==
  IF r.maxX <= r.minX \/ r.maxY <= r.minY THEN <<>>
  ELSE [i \in 1..(r.maxX - r.minX) |->
          <<CellId(r.minX + i - 1, r.minY), CellId(r.minX + i - 1, r.maxY)>>]

\* ------------------------------------------------------------------- tiles
\* A feature: its offset in the tile, rank byte, centre point, the grid cells
\* its geometry covers, the lowest scale it is indexed at, its type and its
\* names in iteration order (ForEachNameRef).
Feature(o, rk, p, cs, sc, ty, ns) ==
  [offset |-> o, rank |-> rk, pt |-> p, cells |-> cs, scale |-> sc, type |-> ty, names |-> ns]

NameA == <<"a">>
NameAB == <<"a", "b">>
NameB == <<"b">>
NameOne == <<"1">>

\* The tiles that may be registered in the index, in the order they are
\* registered in.
TileKinds == {"W", "C", "K"}
TileOrder(k) == CASE k = "W" -> 1 [] k = "C" -> 2 [] k = "K" -> 3

TileInfo(k) ==
  CASE k = "W" ->
         [type |-> "world", limitRect |-> Rect(-50, -50, 50, 50), scaleRange |-> <<0, 9>>,
          edges |-> <<"default", "en", "cat">>,
          features |-> <<
            Feature(0, 9, <<1, 1>>, {<<1, 1>>}, 5, "place", << <<"default", NameA>>, <<"en", NameAB>> >>),
            Feature(1, 5, <<6, 6>>, {<<6, 6>>}, 5, "place", << <<"en", NameA>>, <<"default", NameOne>> >>) >>]
    [] k = "C" ->
         [type |-> "country", limitRect |-> Rect(0, 0, 3, 3), scaleRange |-> <<10, 16>>,
          edges |-> <<"default", "en", "ru", "cat">>,
          features |-> <<
            Feature(0, 5, <<1, 1>>, {<<1, 1>>}, 10, "place", << <<"default", NameA>>, <<"ru", NameB>>, <<"en", NameA>> >>),
            Feature(1, 7, <<0, 1>>, {<<0, 1>>, <<1, 1>>}, 10, "highway", << <<"default", NameA>> >>),
            Feature(2, 9, <<1, 0>>, {<<1, 0>>}, 17, "place", << <<"en", NameAB>> >>) >>]
    [] k = "K" ->
         [type |-> "worldcoasts", limitRect |-> Rect(0, 0, 7, 7), scaleRange |-> <<0, 17>>,
          edges |-> <<"default", "cat">>,
          features |-> <<
            Feature(0, 7, <<1, 0>>, {<<1, 0>>}, 5, "highway", << <<"default", NameA>> >>) >>]

\* The viewports the caller passes to SetViewport.
Viewports == {Rect(0, 0, 2, 2), Rect(6, 6, 7, 7)}

\* The user positions the caller may set; NoPosition is Query::empty_pos_value.
NoPosition == <<-1000, -1000>>
Positions == {NoPosition, <<3, 3>>}

\* ----------------------------------------------------------- offset cache
\* ScaleIndex::ForEachInIntervalAndScale: one offset per index entry
\* (cell, feature) whose cell lies in [iv[1], iv[2]) and whose scale bucket
\* is not above the requested scale. A feature covering several cells of the
\* interval is reported once per cell.
IntervalOffsets(tile, iv, scale) ==
  Concat([k \in 1..Len(tile.features) |->
            LET f == tile.features[k]
                n == Cardinality({c \in f.cells : iv[1] <= CellId(c[1], c[2]) /\ CellId(c[1], c[2]) < iv[2]})
            IN IF f.scale <= scale THEN Repeat(<<f.offset>>, n) ELSE <<>>])

\* Body of the loop of UpdateViewportOffsets for one tile.
TileOffsets(tile, viewport, viewportExtended) ==
  IF IsIntersect(viewportExtended, tile.limitRect) /\ tile.type = "country"
  THEN LET viewScale == GetScaleLevel(viewport)
           scale == Min(Max(viewScale + ScaleBias, tile.scaleRange[1]), tile.scaleRange[2])
           interval == CoveringIntervals(viewport)
       IN SortInts(Concat([i \in 1..Len(interval) |-> IntervalOffsets(tile, interval[i], scale)]))
  ELSE <<>>

\* Query::UpdateViewportOffsets: the new value of m_offsetsInViewport.
UpdateViewportOffsets(viewport, viewportExtended, mwmInfo) ==
  [i \in 1..Len(mwmInfo) |-> TileOffsets(TileInfo(mwmInfo[i]), viewport, viewportExtended)]

\* -------------------------------------------------------------- tile locks
\* Index::MwmLock mwmLock(*m_pIndex, mwmId): the lock is taken.
MwmLock(locks, id) == Append(locks, id)

\* The lock's scope ends without the lock being given back.
MwmUnlock_Keeps(locks, id) == locks

\* The lock's scope ends (normally or by unwinding): ~MwmLock gives back the
\* lock taken last on the tile.
MwmUnlock(locks, id) ==
  IF \E k \in 1..Len(locks) : locks[k] = id
  THEN LET k == CHOOSE k \in 1..Len(locks) :
                  locks[k] = id /\ \A j \in (k + 1)..Len(locks) : locks[j] # id
       IN SubSeq(locks, 1, k - 1) \o SubSeq(locks, k + 1, Len(locks))
  ELSE locks

\* A run of lock scopes, one after the other, each closed before the next is
\* opened: the locks held afterwards and the most held at once.
RECURSIVE LockScopes(_, _)
LockScopes(st, ids) ==
  IF ids = <<>> THEN st
  ELSE LET taken == MwmLock(st.held, Head(ids))
       IN LockScopes([held |-> MwmUnlock(taken, Head(ids)),
                      peak |-> Max(st.peak, Len(taken))], Tail(ids))

\* UpdateViewportOffsets, lines 84-114: the tiles it locks, in order.
UpdateViewportOffsetsLocks(viewportExtended, mwmInfo) ==
  SelectSeq([i \in 1..Len(mwmInfo) |-> i],
            LAMBDA i : IsIntersect(viewportExtended, TileInfo(mwmInfo[i]).limitRect))

\* --------------------------------------------------------- normalisation
\* search::Delimiters
IsDelimiter(c) == c \in {" ", ","}

\* NormalizeAndSimplifyString: lower-case, strip the diacritical mark "~".
FoldChar(c) == IF c = "A" THEN <<"a">> ELSE IF c = "~" THEN <<>> ELSE <<c>>
NormalizeAndSimplifyString(q) == Concat([i \in 1..Len(q) |-> FoldChar(q[i])])

\* SplitUniString: the maximal delimiter-free runs, in order.
RECURSIVE SplitFrom(_, _, _)
SplitFrom(s, i, cur) ==
  IF i > Len(s) THEN (IF cur = <<>> THEN <<>> ELSE <<cur>>)
  ELSE IF IsDelimiter(s[i])
       THEN (IF cur = <<>> THEN <<>> ELSE <<cur>>) \o SplitFrom(s, i + 1, <<>>)
       ELSE SplitFrom(s, i + 1, Append(cur, s[i]))
SplitUniString(s) == SplitFrom(s, 1, <<>>)

\* strings::LastUniChar: the last code point, 0 for the empty string.
LastUniChar(q) == IF q = <<>> THEN "" ELSE Last(q)

\* DetachPrefix without the delimiter test on the raw query's last code point.
DetachPrefix_NoDelimiterTest(rawQuery, split) == split # <<>>

\* Lines 162-166: is the last token detached as the prefix?
DetachPrefix(rawQuery, split) == split # <<>> /\ ~IsDelimiter(LastUniChar(rawQuery))

\* TruncateTokens without the resize.
TruncateTokens_NoResize(toks) == toks

\* Lines 167-168: resize to the cap.
TruncateTokens(toks) == IF Len(toks) > TokenCap THEN SubSeq(toks, 1, TokenCap) ELSE toks

\* Lines 155-168: m_tokens and m_prefix after initialisation.
InitTokens(rawQuery) ==
  LET split == SplitUniString(NormalizeAndSimplifyString(rawQuery))
  IN IF DetachPrefix(rawQuery, split)
     THEN [tokens |-> TruncateTokens(Front(split)), prefix |-> Last(split)]
     ELSE [tokens |-> TruncateTokens(split), prefix |-> <<>>]

\* search::MatchLatLon: the raw query is two decimal numbers separated by
\* delimiters.
MatchLatLon(q) ==
  LET split == SplitUniString(q)
  IN Len(split) = 2 /\ \A i \in 1..2 : \A j \in 1..Len(split[i]) : split[i][j] = "1"

\* The raw queries the caller passes to Search.
ShortQueries ==
  { <<>>, <<"a">>, <<"A", " ">>, <<"a", " ", "b">>, <<"b", " ", "~">>, <<"1", ",", "1">> }
LongQueries ==
  {Repeat(<<"c", " ">>, TokenCap + j) : j \in 1..MaxExtraTokens}
    \cup {Repeat(<<"c", " ">>, TokenCap + MaxExtraTokens) \o <<"c">>}
Queries == ShortQueries \cup LongQueries

\* Lines 155-168 and 192 for each of the queries (evaluated once).
QueryInit == [q \in Queries |-> [init |-> InitTokens(q), latlon |-> MatchLatLon(q)]]

\* -------------------------------------------------------------- suggester
\* m_pStringsToSuggest: (string, minimal match length) pairs.
StringsToSuggest ==
  << <<NameAB, 1>>, << <<"a", " ", "b", "c">>, 3>>, << <<"b", "b">>, 2>>,
     << <<"1", " ", "1", "1">>, 2>> >>

\* StartsWith(s.begin(), s.end(), t.begin(), t.end()): t is a prefix of s.
StartsWith(s, t) == Len(t) <= Len(s) /\ SubSeq(s, 1, Len(t)) = t

Suggestion(s, n) == [kind |-> "suggest", str |-> s, minLen |-> n]

\* Query::MatchForSuggestions: the results added for one target, in order.
MatchForSuggestions(token) ==
  Concat([k \in 1..Len(StringsToSuggest) |->
            LET it == StringsToSuggest[k]
            IN IF it[2] <= Len(token) /\ StartsWith(it[1], token)
               THEN <<Suggestion(it[1], it[2])>> ELSE <<>>])

\* SuggestStrings that appends the space and the prefix to the token even
\* when the prefix is empty.
SuggestStrings_AlwaysSpace(tokens, prefix) ==
  IF Len(tokens) = 0 /\ prefix # <<>> THEN MatchForSuggestions(prefix)
  ELSE IF Len(tokens) = 1
       THEN MatchForSuggestions(tokens[1] \o <<" ">> \o prefix)
       ELSE <<>>

\* Query::SuggestStrings: the results added to the sink.
SuggestStrings(tokens, prefix) ==
  IF Len(tokens) = 0 /\ prefix # <<>> THEN MatchForSuggestions(prefix)
  ELSE IF Len(tokens) = 1
       THEN MatchForSuggestions(IF prefix # <<>> THEN tokens[1] \o <<" ">> \o prefix
                                ELSE tokens[1])
       ELSE <<>>

\* ------------------------------------------------------------ trie matcher
\* m_pCategories: token -> category types; FeatureTypeToString gives the
\* label the categories sub-trie is keyed by.
CategoryTypes(token) == IF token = NameB THEN <<"highway">> ELSE <<>>
FeatureTypeToString(t) == <<"!", t>>

\* SearchFeatures(), lines 560-577: per user token, the token itself followed
\* by the names of its categories.
SearchTokens(tokens) ==
  [i \in 1..Len(tokens) |->
     <<tokens[i]>> \o [k \in 1..Len(CategoryTypes(tokens[i])) |->
                         FeatureTypeToString(CategoryTypes(tokens[i])[k])]]

\* SearchFeatures(), lines 582-586: the languages searched.
SearchLangs(preferred) == {preferred, "int_name", "en", "default"}

\* MatchFeaturesInTrie in which a query with neither tokens nor prefix matches
\* every feature of the language edge.
FeatureMatches_EmptyMatchesAll(f, name, tokens, prefix) ==
  /\ \A i \in 1..Len(tokens) :
       \E k \in 1..Len(tokens[i]) :
          tokens[i][k] = name \/ tokens[i][k] = FeatureTypeToString(f.type)
  /\ prefix = <<>> \/ StartsWith(name, prefix)

\* MatchFeaturesInTrie: does the feature, through its name in one language
\* edge, match every token (by name or by category) and the prefix?
FeatureMatches(f, name, tokens, prefix) ==
  /\ tokens # <<>> \/ prefix # <<>>
  /\ \A i \in 1..Len(tokens) :
       \E k \in 1..Len(tokens[i]) :
          tokens[i][k] = name \/ tokens[i][k] = FeatureTypeToString(f.type)
  /\ prefix = <<>> \/ StartsWith(name, prefix)

\* The trie values (TrieValueT) reached under one language edge of a tile,
\* in offset order.
EdgeValues(tile, lang, tokens, prefix) ==
  Concat([k \in 1..Len(tile.features) |->
            LET f == tile.features[k]
            IN IF \E n \in 1..Len(f.names) :
                    f.names[n][1] = lang /\ FeatureMatches(f, f.names[n][2], tokens, prefix)
               THEN << [m_featureId |-> f.offset, m_rank |-> f.rank, m_pt |-> f.pt] >>
               ELSE <<>>])

\* SearchFeatures(tokens, mwmInfo, langs), lines 663-682: the filter calls
\* made for one tile, language edge after language edge.
TileValues(tile, preferred, tokens, prefix) ==
  Concat([i \in 1..Len(tile.edges) |->
            IF tile.edges[i] # "cat" /\ tile.edges[i] \in SearchLangs(preferred)
            THEN EdgeValues(tile, tile.edges[i], SearchTokens(tokens), prefix)
            ELSE <<>>])

\* std::binary_search over [lo, hi) of the vector (1-based positions).
RECURSIVE LowerBound(_, _, _, _)
LowerBound(v, x, lo, hi) ==
  IF lo >= hi THEN lo
  ELSE LET mid == lo + (hi - lo) \div 2
       IN IF v[mid] < x THEN LowerBound(v, x, mid + 1, hi) ELSE LowerBound(v, x, lo, mid)
BinarySearch(v, x) ==
  LET i == LowerBound(v, x, 1, Len(v) + 1)
  IN i <= Len(v) /\ ~(x < v[i])

\* FeaturesFilter::operator(), line 610 (the cancel test of lines 607-608 is
\* in MatchStep).
FeaturesFilter(offsets, alwaysTrue, offset) == alwaysTrue \/ BinarySearch(offsets, offset)

\* -------------------------------------------------------- candidate queues
\* impl::PreResult1: id is GetID() = (feature offset, mwm id); ord is the
\* number of the AddResultFromTrie call that built it.
PreResult1(val, mwmID, position, viewport, n) ==
  [id |-> <<val.m_featureId, mwmID>>, rank |-> val.m_rank, pt |-> val.m_pt,
   viewportDistance |-> CenterDistance(viewport, val.m_pt),
   distance |-> IF position = NoPosition THEN -1 ELSE PointDistance(position, val.m_pt),
   ord |-> n]

\* g_arrCompare1 / g_arrCompare2: LessRank, LessViewportDistance, LessDistance.
LessRank(a, b) == a.rank > b.rank
LessViewportDistance(a, b) == a.viewportDistance < b.viewportDistance
LessDistance(a, b) == a.distance < b.distance
g_arrCompare == <<"LessRank", "LessViewportDistance", "LessDistance">>
Compare(i, a, b) ==
  CASE g_arrCompare[i] = "LessRank" -> LessRank(a, b)
    [] g_arrCompare[i] = "LessViewportDistance" -> LessViewportDistance(a, b)
    [] g_arrCompare[i] = "LessDistance" -> LessDistance(a, b)

\* EqualFeature that finds no two hits equal.
EqualFeature_Never(a, b) == FALSE

\* EqualFeature
EqualFeature(a, b) == a.id = b.id

\* QueueT(maxSize, compare): a limited priority queue.
QueueT(n) == [maxSize |-> n, items |-> <<>>]

RemoveAt(s, k) == SubSeq(s, 1, k - 1) \o SubSeq(s, k + 1, Len(s))

\* A push that, at capacity, replaces any element the new one is better than,
\* not only a worst one.
QueuePush_EvictsAny(q, i, r) ==
  IF q.maxSize = 0 THEN {q}
  ELSE IF Len(q.items) < q.maxSize THEN {[q EXCEPT !.items = Append(@, r)]}
  ELSE {IF Compare(i, r, q.items[k])
        THEN [q EXCEPT !.items = Append(RemoveAt(@, k), r)]
        ELSE q : k \in 1..Len(q.items)}

\* limited_priority_queue::push: the values the queue may hold afterwards.
\* Below capacity the element is added; at capacity it replaces top(), a worst
\* element, if it compares better than it. Which of several equally bad
\* elements is top() depends on the heap's layout.
QueuePush(q, i, r) ==
  IF q.maxSize = 0 THEN {q}
  ELSE IF Len(q.items) < q.maxSize THEN {[q EXCEPT !.items = Append(@, r)]}
  ELSE LET tops == {k \in 1..Len(q.items) :
                      \A j \in 1..Len(q.items) : ~Compare(i, q.items[k], q.items[j])}
       IN {IF Compare(i, r, q.items[k])
           THEN [q EXCEPT !.items = Append(RemoveAt(@, k), r)]
           ELSE q : k \in tops}

\* Query::AddResultFromTrie for queue i.
AddToQueue(q, i, r) ==
  IF \A k \in 1..Len(q.items) : ~EqualFeature(r, q.items[k])
  THEN QueuePush(q, i, r)
  ELSE {q}

\* ------------------------------------------------------------- promotion
\* uint32_t(-1), line 497: the largest penalty (the largest integer TLC holds
\* stands for 2^32 - 1; no arithmetic is done on it).
MaxPenalty == 2147483647

\* LangKeywordsScorer::Score: the tier of the language in langPriorities
\* (lines 170-174), plus a penalty when the name does not start with the
\* query's first keyword.
LangTier(lang, preferred) ==
  IF lang = preferred THEN 0
  ELSE IF lang \in {"int_name", "en"} THEN 1
  ELSE IF lang = "default" THEN 2
  ELSE 3
Score(lang, name, preferred, tokens, prefix) ==
  LET key == IF tokens # <<>> THEN tokens[1] ELSE prefix
  IN IF LangTier(lang, preferred) = 3 THEN MaxPenalty
     ELSE LangTier(lang, preferred) + (IF StartsWith(name, key) THEN 0 ELSE 4)

\* The name variants of a feature in ForEachNameRef order, each with the
\* penalty m_keywordsScorer.Score gives it (line 502).
ScoredNames(names, preferred, tokens, prefix) ==
  [n \in 1..Len(names) |->
     [name |-> names[n][2],
      penalty |-> Score(names[n][1], names[n][2], preferred, tokens, prefix)]]

\* BestNameFinder over ForEachNameRef, lines 494-509: the running
\* (penalty, name) after the first n names. The name starts as the empty
\* string of PreResult2Maker (line 360).
RECURSIVE BestNameFinder(_, _)
BestNameFinder(scored, n) ==
  IF n = 0 THEN [penalty |-> MaxPenalty, name |-> <<>>]
  ELSE LET prev == BestNameFinder(scored, n - 1)
       IN IF scored[n].penalty < prev.penalty
          THEN [penalty |-> scored[n].penalty, name |-> scored[n].name]
          ELSE prev

\* Query::GetBestMatchName
GetBestMatchName(f, preferred, tokens, prefix) ==
  BestNameFinder(ScoredNames(f.names, preferred, tokens, prefix), Len(f.names))

\* PreResult2Maker::operator(): <<candidate>>, or <<>> when no tile is found.
PreResult2Maker(r, mwmInfo, preferred, tokens, prefix) ==
  IF r.id[2] \in 1..Len(mwmInfo)
  THEN LET tile == TileInfo(mwmInfo[r.id[2]])
           f == tile.features[r.id[1] + 1]
       IN << [id |-> r.id, rank |-> r.rank, pt |-> r.pt,
              viewportDistance |-> r.viewportDistance, distance |-> r.distance,
              ord |-> r.ord,
              name |-> GetBestMatchName(f, preferred, tokens, prefix).name,
              type |-> f.type,
              country |-> IF tile.type = "world" THEN "" ELSE mwmInfo[r.id[2]]] >>
  ELSE <<>>

\* PreResult2Maker, lines 326-346: the tiles locked while the elements of
\* the set are promoted in order. A tile is locked for the first of its
\* elements only; its FeaturesVector is kept in m_features for the rest.
RECURSIVE PreResult2MakerLocks(_, _)
PreResult2MakerLocks(set, mwmInfo) ==
  IF set = <<>> THEN <<>>
  ELSE LET before == PreResult2MakerLocks(Front(set), mwmInfo)
           id == Last(set).id[2]
       IN IF id \in 1..Len(mwmInfo) /\ id \notin Range(before)
          THEN Append(before, id) ELSE before

\* PreResult2Maker, lines 326-357: the feature records read while the
\* elements of the set are promoted in order, each with the locks held at the
\* read of line 357. The MwmLock of line 334 is a local of the block that
\* ends at line 346; the FeaturesVector made under it is kept in m_features.
RECURSIVE PreResult2MakerReads(_, _, _)
PreResult2MakerReads(held, set, mwmInfo) ==
  IF set = <<>> THEN <<>>
  ELSE LET before == PreResult2MakerReads(held, Front(set), mwmInfo)
           id == Last(set).id[2]
           made == id \in {before[k].tile : k \in 1..Len(before)}
           atRead == IF made THEN held ELSE MwmUnlock(MwmLock(held, id), id)
       IN IF id \in 1..Len(mwmInfo)
          THEN Append(before, [tile |-> id, offset |-> Last(set).id[1], locks |-> atRead])
          ELSE before

\* ----------------------------------------------------------- FlushResults
\* LessByFeatureID: r1.GetID() < r2.GetID() on pair<uint32_t, size_t>.
LessByFeatureID(r1, r2) ==
  r1.id[1] < r2.id[1] \/ (r1.id[1] = r2.id[1] /\ r1.id[2] < r2.id[2])

\* std::set<PreResult1, LessByFeatureID>::insert of one element into the
\* ordered sequence of the set's elements.
RECURSIVE SetInsert(_, _)
SetInsert(set, r) ==
  IF set = <<>> THEN <<r>>
  ELSE IF LessByFeatureID(r, Head(set)) THEN <<r>> \o set
  ELSE IF LessByFeatureID(Head(set), r) THEN <<Head(set)>> \o SetInsert(Tail(set), r)
  ELSE set

RECURSIVE SetInsertAll(_, _)
SetInsertAll(set, items) ==
  IF items = <<>> THEN set ELSE SetInsertAll(SetInsert(set, Head(items)), Tail(items))

\* Lines 395-399: the unique set of PreResult1 over the three queues.
MakeUniqueSet(results) ==
  SetInsertAll(SetInsertAll(SetInsertAll(<<>>, results[1].items), results[2].items),
               results[3].items)

\* PreResult2::StrictEqualF
StrictEqualF(a, b) == a.name = b.name /\ a.type = b.type /\ a.pt = b.pt

\* IndexedValue(res): the rank triple m_ind starts at numeric_limits<size_t>::max().
\* crit keeps the triple as SetIndex filled it, before SortIndex reorders m_ind.
IndexedValue(v) ==
  [val |-> v, ind |-> [i \in 1..m_qCount |-> MaxPenalty], crit |-> [i \in 1..m_qCount |-> MaxPenalty]]

\* Lines 402-413: promote each element of the set, skipping strict duplicates.
RECURSIVE MakeIndV(_, _, _, _, _, _)
MakeIndV(set, n, mwmInfo, preferred, tokens, prefix) ==
  IF n = 0 THEN <<>>
  ELSE LET indV == MakeIndV(set, n - 1, mwmInfo, preferred, tokens, prefix)
           made == PreResult2Maker(set[n], mwmInfo, preferred, tokens, prefix)
       IN IF made = <<>> THEN indV
          ELSE IF \A k \in 1..Len(indV) : ~StrictEqualF(indV[k].val, made[1])
               THEN Append(indV, IndexedValue(made[1]))
               ELSE indV

\* PreResult2::LessLinearTypesF / EqualLinearTypesF
NameKey(n) ==
  CASE n = <<>> -> 0 [] n = NameA -> 1 [] n = NameAB -> 2 [] n = NameB -> 3 [] n = NameOne -> 4
TypeKey(t) == CASE t = "highway" -> 0 [] t = "place" -> 1
LessLinearTypesF(a, b) ==
  NameKey(a.name) < NameKey(b.name)
    \/ (NameKey(a.name) = NameKey(b.name) /\ TypeKey(a.type) < TypeKey(b.type))
EqualLinearTypesF(a, b) == a.name = b.name /\ a.type = b.type /\ a.type = "highway"

\* IndexedValue::operator< with the comparison turned round.
IndexedValueLess_Reversed(l, r) ==
  \E i \in 1..m_qCount :
     /\ \A k \in 1..(i - 1) : l.ind[k] = r.ind[k]
     /\ l.ind[i] > r.ind[i]

\* IndexedValue::operator<, lines 271-280
IndexedValueLess(l, r) ==
  \E i \in 1..m_qCount :
     /\ \A k \in 1..(i - 1) : l.ind[k] = r.ind[k]
     /\ l.ind[i] < r.ind[i]

\* The comparators std::sort is called with in FlushResults.
SortLess(c, a, b) ==
  CASE c = "linear" -> LessLinearTypesF(a.val, b.val)
    [] c = "combined" -> IndexedValueLess(a, b)
    [] OTHER -> \E i \in 1..m_qCount : g_arrCompare[i] = c /\ Compare(i, a.val, b.val)

\* std::sort(v, less): every arrangement of v that is sorted under the
\* comparator; the order of equivalent elements is unspecified.
RECURSIVE SortedOrders(_, _, _)
SortedOrders(v, idx, c) ==
  IF idx = {} THEN {<<>>}
  ELSE UNION {{<<v[m]>> \o t : t \in SortedOrders(v, idx \ {m}, c)} :
                m \in {m \in idx : \A k \in idx : ~SortLess(c, v[k], v[m])}}
StdSort(v, c) == SortedOrders(v, 1..Len(v), c)

\* std::unique with EqualLinearTypesF: drop an element equal to the last kept.
RECURSIVE UniqueLinear(_)
UniqueLinear(v) ==
  IF Len(v) <= 1 THEN v
  ELSE LET u == UniqueLinear(Front(v))
       IN IF EqualLinearTypesF(Last(u).val, Last(v).val) THEN u ELSE Append(u, Last(v))

\* Lines 430-437: the rank positions along a vector sorted by criterion c.
RECURSIVE RankAt(_, _, _)
RankAt(v, j, c) ==
  IF j = 1 THEN 0
  ELSE RankAt(v, j - 1, c) + (IF SortLess(c, v[j - 1], v[j]) THEN 1 ELSE 0)
AssignRanks(v, i) ==
  [j \in 1..Len(v) |-> [v[j] EXCEPT !.ind[i] = RankAt(v, j, g_arrCompare[i]),
                                    !.crit[i] = RankAt(v, j, g_arrCompare[i])]]

\* SortIndex that leaves m_ind as SetIndex filled it.
SortIndex_Unsorted(x) == x

\* IndexedValue::SortIndex: sort(m_ind.begin(), m_ind.end()).
SortIndex(x) == [x EXCEPT !.ind = SortInts(@)]

\* Lines 422-444: one criterion pass after the other, then SortIndex on each
\* element and the sort by the combined criteria. The order std::sort leaves
\* equivalent elements in does not change the ranks a pass assigns, so each
\* pass takes one sorted arrangement; the last sort keeps all of them.
RECURSIVE RankPasses(_, _)
RankPasses(v, c) ==
  IF c = 0 THEN v
  ELSE LET prev == RankPasses(v, c - 1)
       IN AssignRanks(CHOOSE s \in StdSort(prev, g_arrCompare[c]) : TRUE, c)

CombinedOrders(v) ==
  LET ranked == RankPasses(v, m_qCount)
      keyed == [j \in 1..Len(ranked) |-> SortIndex(ranked[j])]
  IN StdSort(keyed, "combined")

\* FlushResults that promotes every element of every queue, with neither the
\* set of lines 392-399 nor the duplicate test of line 409.
FlushOrders_AllQueues(results, mwmInfo, preferred, tokens, prefix) ==
  LET all == results[1].items \o results[2].items \o results[3].items
      made == Concat([k \in 1..Len(all) |->
                [j \in 1..Len(PreResult2Maker(all[k], mwmInfo, preferred, tokens, prefix)) |->
                   IndexedValue(PreResult2Maker(all[k], mwmInfo, preferred, tokens, prefix)[j])]])
  IN UNION {CombinedOrders(UniqueLinear(s)) : s \in StdSort(made, "linear")}

\* Lines 388-444 of FlushResults: the vectors indV may be when emission
\* starts.
FlushOrders(results, mwmInfo, preferred, tokens, prefix) ==
  LET set == MakeUniqueSet(results)
      made == MakeIndV(set, Len(set), mwmInfo, preferred, tokens, prefix)
  IN UNION {CombinedOrders(UniqueLinear(s)) : s \in StdSort(made, "linear")}

\* --------------------------------------------------------------- the state
\* Query::Query, line 37: the preferred language is "en" unless
\* SetPreferredLanguage changes it, which no caller does here.
m_preferredLanguage == "en"

VARIABLES
  tiles,                  \* the index's registered tiles (Index::GetMwmInfo)
  m_viewport, m_viewportExtended,
  m_offsetsInViewport, m_bOffsetsCacheIsValid,
  m_position,
  m_cancel,
  m_rawQuery, m_tokens, m_prefix,
  m_results,              \* the m_qCount candidate queues
  res,                    \* the result sink of the running or last Search
  pc,                     \* where Search is: "idle" when no Search runs
  mwmId, hitIdx,          \* SearchFeatures: tile loop, filter call within the tile
  indV, emitIdx,          \* FlushResults: the sorted vector, emission loop
  added,                  \* number of AddResultFromTrie calls of this Search
  cancelAtEntry,          \* m_cancel as Search found it on entry
  viewportOp,             \* what the last step did, if it was a SetViewport call
  lastFilter,             \* the last decision of FeaturesFilter
  resultsNeeded,          \* the argument of the running or last Search
  hits,                   \* the PreResult1 built by this Search's AddResultFromTrie calls
  featureReads,           \* the feature records this Search's promotion pass read
  mwmLocks,               \* the tiles the running call holds an Index::MwmLock on
  lockPeak,               \* the most MwmLocks the running or last call held at once
  nameScores,             \* GetBestMatchName on its own: the names and penalties of f
  bestMatch,              \* GetBestMatchName on its own: the penalty and name returned
  m_notes,                \* editor::Notes: the notes not uploaded yet
  m_uploadedNotes,        \* editor::Notes: the count of uploaded notes
  notesFile,              \* what Save wrote last: the notes and the count
  future,                 \* the static future of Notes::Upload: 0 before its initialisation
  tasks,                  \* the upload tasks started by launch()
  uploadPc,               \* where each thread that calls Notes::Upload is
  launched,               \* per calling thread: the task its launch() of line 130 started
  serverNotes,            \* the notes api.CreateNote has accepted, in order
  created,                \* number of CreateNote calls made
  uploadCalls             \* number of Upload calls made

vars ==
  <<tiles, m_viewport, m_viewportExtended, m_offsetsInViewport, m_bOffsetsCacheIsValid,
    m_position, m_cancel, m_rawQuery, m_tokens, m_prefix,
    m_results, res, pc, mwmId, hitIdx, indV, emitIdx, added, cancelAtEntry,
    viewportOp, lastFilter, resultsNeeded, hits, featureReads, mwmLocks, lockPeak,
    nameScores, bestMatch,
    m_notes, m_uploadedNotes, notesFile, future, tasks, uploadPc, launched,
    serverNotes, created, uploadCalls>>

cacheVars == <<m_viewport, m_viewportExtended, m_offsetsInViewport, m_bOffsetsCacheIsValid>>
queryVars == <<m_rawQuery, m_tokens, m_prefix>>
loopVars == <<mwmId, hitIdx, indV, emitIdx, added, hits, featureReads>>
searchVars == <<m_cancel, m_rawQuery, m_tokens, m_prefix, m_results, res, pc,
                mwmId, hitIdx, indV, emitIdx, added, hits, featureReads, cancelAtEntry,
                lastFilter,
                resultsNeeded>>
lockVars == <<mwmLocks, lockPeak>>
bestVars == <<nameScores, bestMatch>>
notesVars == <<m_notes, m_uploadedNotes, notesFile, future, tasks, uploadPc, launched,
               serverNotes, created, uploadCalls>>
queryObjectVars ==
  <<tiles, cacheVars, m_position, searchVars, viewportOp, lockVars>>

NoFilter == [called |-> FALSE]

NoMatch == [called |-> FALSE]

\* Query::Query, lines 29-42
QueryInitial ==
  /\ tiles = <<>>
  /\ m_viewport = EmptyRect
  /\ m_viewportExtended = EmptyRect
  /\ m_offsetsInViewport = <<>>
  /\ m_bOffsetsCacheIsValid = FALSE
  /\ m_position = NoPosition
  /\ m_cancel = FALSE
  /\ m_rawQuery = <<>>
  /\ m_tokens = <<>>
  /\ m_prefix = <<>>
  /\ m_results = [i \in 1..m_qCount |-> QueueT(1)]
  /\ res = <<>>
  /\ pc = "idle"
  /\ mwmId = 0
  /\ hitIdx = 0
  /\ indV = <<>>
  /\ emitIdx = 0
  /\ added = 0
  /\ cancelAtEntry = FALSE
  /\ viewportOp = "none"
  /\ lastFilter = NoFilter
  /\ resultsNeeded = 0
  /\ hits = <<>>
  /\ featureReads = <<>>
  /\ mwmLocks = <<>>
  /\ lockPeak = 0

\* ------------------------------------------------------- editor::Notes
\* Largest number of notes created.
MaxNotes == 2
\* Largest number of Notes::Upload calls.
MaxUploadCalls == 3
\* Number of threads that call Notes::Upload.
UploadThreads == 2

\* Every Upload call starts at most one task, the first one at most two.
TaskIds == 1..(MaxUploadCalls + 1)

NoTask == [pc |-> "unborn", notes |-> <<>>, i |-> 0, unuploaded |-> <<>>, count |-> 0]

\* Notes::Notes with no edits file (Load, lines 141-145), and the static
\* future of Upload not initialised yet.
NotesInitial ==
  /\ m_notes = <<>>
  /\ m_uploadedNotes = 0
  /\ notesFile = [notes |-> <<>>, count |-> 0]
  /\ future = 0
  /\ tasks = [k \in TaskIds |-> NoTask]
  /\ uploadPc = [t \in 1..UploadThreads |-> "idle"]
  /\ launched = [t \in 1..UploadThreads |-> 0]
  /\ serverNotes = <<>>
  /\ created = 0
  /\ uploadCalls = 0

Init ==
  /\ QueryInitial
  /\ nameScores = <<>>
  /\ bestMatch = NoMatch
  /\ NotesInitial

\* ------------------------------------------------- the index (environment)
\* A tile is registered in the index.
AddTile(k) ==
  /\ pc = "idle"
  /\ Len(tiles) < MaxTiles
  /\ \A i \in 1..Len(tiles) : TileOrder(tiles[i]) < TileOrder(k)
  /\ tiles' = Append(tiles, k)
  /\ viewportOp' = "none"
  /\ UNCHANGED <<cacheVars, m_position, searchVars, lockVars>>
  /\ UNCHANGED <<bestVars, notesVars>>

\* A tile is removed from the index; the ids of the later tiles move down.
RemoveTile(i) ==
  /\ pc = "idle"
  /\ i \in 1..Len(tiles)
  /\ tiles' = RemoveAt(tiles, i)
  /\ viewportOp' = "none"
  /\ UNCHANGED <<cacheVars, m_position, searchVars, lockVars>>
  /\ UNCHANGED <<bestVars, notesVars>>

\* ------------------------------------------------------------ the controller
\* The test of line 52 without its cache-validity half.
SetViewportFills_ViewportOnly(viewport) == m_viewport # viewport

\* Query::SetViewport, lines 48-60
SetViewportFills(viewport) == m_viewport # viewport \/ ~m_bOffsetsCacheIsValid

SetViewport(viewport) ==
  /\ pc = "idle"
  /\ IF SetViewportFills(viewport)
     THEN /\ m_viewport' = viewport
          /\ m_viewportExtended' = RectScale(viewport, ViewportScaleFactor)
          /\ m_offsetsInViewport' =
               UpdateViewportOffsets(viewport, RectScale(viewport, ViewportScaleFactor), tiles)
          /\ m_bOffsetsCacheIsValid' = TRUE
          /\ viewportOp' = "fill"
          /\ LET st == LockScopes([held |-> mwmLocks, peak |-> 0],
                                  UpdateViewportOffsetsLocks(
                                    RectScale(viewport, ViewportScaleFactor), tiles))
             IN mwmLocks' = st.held /\ lockPeak' = st.peak
     ELSE /\ UNCHANGED <<cacheVars, mwmLocks>>
          /\ viewportOp' = "nofill"
          /\ lockPeak' = 0
  /\ pc' = "viewportSet"
  /\ UNCHANGED <<tiles, m_position, m_cancel, queryVars, m_results, res, loopVars,
                 cancelAtEntry, lastFilter, resultsNeeded>>
  /\ UNCHANGED <<bestVars, notesVars>>

\* Query::SetPosition
SetPosition(pos) ==
  /\ pc = "idle"
  /\ m_position' = pos
  /\ viewportOp' = "none"
  /\ UNCHANGED <<tiles, cacheVars, searchVars, lockVars>>
  /\ UNCHANGED <<bestVars, notesVars>>

\* Query::ClearCache, lines 67-71
ClearCache ==
  /\ pc = "idle"
  /\ m_offsetsInViewport' = <<>>
  /\ m_bOffsetsCacheIsValid' = FALSE
  /\ viewportOp' = "none"
  /\ UNCHANGED <<tiles, m_viewport, m_viewportExtended, m_position,
                 searchVars, lockVars>>
  /\ UNCHANGED <<bestVars, notesVars>>

\* Another thread sets the cancel flag (m_cancel is volatile), at any moment.
Cancel ==
  /\ pc \notin {"returned", "thrown", "viewportSet", "crashed"}
  /\ ~m_cancel
  /\ m_cancel' = TRUE
  /\ viewportOp' = "none"
  /\ UNCHANGED <<tiles, cacheVars, m_position, queryVars, m_results,
                 res, pc, loopVars, cancelAtEntry, lastFilter, resultsNeeded, lockVars>>
  /\ UNCHANGED <<bestVars, notesVars>>

\* ------------------------------------------------------------------ Search
\* Search returns to its caller (pc = "returned") or is left by the
\* CancelException, which nothing in Search catches (pc = "thrown"); the
\* frame's loop variables go away.
Leave(how) ==
  /\ pc' = how
  /\ mwmId' = 0
  /\ hitIdx' = 0
  /\ indV' = <<>>
  /\ emitIdx' = 0
  /\ added' = 0
  /\ hits' = <<>>
  /\ featureReads' = <<>>
  /\ lastFilter' = NoFilter
  /\ mwmLocks' = IF pc = "match" THEN MwmUnlock(mwmLocks, mwmId) ELSE mwmLocks

\* GenerateFinalResult of the lat/lon result, lines 195-196
LatLonResult == [kind |-> "latlon"]
\* GenerateFinalResult of a promoted candidate, line 453
FeatureResult(x) == [kind |-> "feature", val |-> x.val, ind |-> x.ind, crit |-> x.crit]

\* The lat/lon match that adds its result twice.
LatLonResults_Twice(query) ==
  IF QueryInit[query].latlon THEN <<LatLonResult, LatLonResult>> ELSE <<>>

\* Lines 190-198: what the lat/lon match adds to the sink.
LatLonResults(query) == IF QueryInit[query].latlon THEN <<LatLonResult>> ELSE <<>>

\* Query::Search, lines 151-198: initialisation and the lat/lon match.
SearchBegin(query, needed) ==
  /\ pc = "idle"
  /\ cancelAtEntry' = m_cancel
  /\ m_cancel' = FALSE
  /\ m_rawQuery' = query
  /\ m_tokens' = QueryInit[query].init.tokens
  /\ m_prefix' = QueryInit[query].init.prefix
  /\ resultsNeeded' = needed
  /\ m_results' = [i \in 1..m_qCount |-> QueueT(2 * needed)]
  /\ res' = LatLonResults(query)
  /\ pc' = "suggest"
  /\ viewportOp' = "none"
  /\ lastFilter' = NoFilter
  /\ lockPeak' = 0
  /\ UNCHANGED <<tiles, cacheVars, m_position, loopVars, mwmLocks>>
  /\ UNCHANGED <<bestVars, notesVars>>

\* Lines 200-201: if (m_cancel) return; SuggestStrings(res);
SuggestStep ==
  /\ pc = "suggest"
  /\ IF m_cancel
     THEN Leave("returned") /\ UNCHANGED res
     ELSE /\ res' = res \o SuggestStrings(m_tokens, m_prefix)
          /\ pc' = "features"
          /\ UNCHANGED <<loopVars, lastFilter, mwmLocks>>
  /\ viewportOp' = "none"
  /\ UNCHANGED <<tiles, cacheVars, m_position, m_cancel, queryVars,
                 m_results, cancelAtEntry, resultsNeeded, lockPeak>>
  /\ UNCHANGED <<bestVars, notesVars>>

\* Lines 203-204: if (m_cancel) return; SearchFeatures(); up to the tile loop.
FeaturesBegin ==
  /\ pc = "features"
  /\ IF m_cancel
     THEN Leave("returned")
     ELSE /\ pc' = "tile"
          /\ mwmId' = 1
          /\ UNCHANGED <<hitIdx, indV, emitIdx, added, hits, featureReads, lastFilter,
                         mwmLocks>>
  /\ viewportOp' = "none"
  /\ UNCHANGED <<tiles, cacheVars, m_position, m_cancel, queryVars,
                 m_results, res, cancelAtEntry, resultsNeeded, lockPeak>>
  /\ UNCHANGED <<bestVars, notesVars>>

\* Lines 620-626: the head of the tile loop of SearchFeatures.
TileStep ==
  /\ pc = "tile"
  /\ IF mwmId > Len(tiles)
     THEN pc' = "flush" /\ UNCHANGED <<mwmId, hitIdx, lockVars>>
     ELSE IF IsIntersect(m_viewportExtended, TileInfo(tiles[mwmId]).limitRect)
          THEN /\ pc' = "match"
               /\ hitIdx' = 1
               /\ mwmLocks' = MwmLock(mwmLocks, mwmId)
               /\ lockPeak' = Max(lockPeak, Len(MwmLock(mwmLocks, mwmId)))
               /\ UNCHANGED mwmId
          ELSE mwmId' = mwmId + 1 /\ UNCHANGED <<pc, hitIdx, lockVars>>
  /\ viewportOp' = "none"
  /\ UNCHANGED <<tiles, cacheVars, m_position, m_cancel, queryVars, m_results, res,
                 indV, emitIdx, added, hits, featureReads, cancelAtEntry, lastFilter,
                 resultsNeeded>>
  /\ UNCHANGED <<bestVars, notesVars>>

\* Query::AddResultFromTrie, lines 473-483: the values m_results may take.
AddResultFromTrie(val, mwmID) ==
  LET r == PreResult1(val, mwmID, m_position, m_viewport, added + 1)
  IN {q \in [1..m_qCount -> UNION {AddToQueue(m_results[i], i, r) : i \in 1..m_qCount}] :
        \A i \in 1..m_qCount : q[i] \in AddToQueue(m_results[i], i, r)}

\* The filter's answer for one offset of tile mwmID. m_offsetsInViewport[mwmId]
\* (line 673) is read by binary_search unless the tile is a world tile; when
\* the vector has no such element the read is out of bounds and the answer is
\* whatever the memory there gives.
FilterAnswers(tile, mwmID, offset) ==
  IF mwmID <= Len(m_offsetsInViewport)
  THEN {FeaturesFilter(m_offsetsInViewport[mwmID], tile.type = "world", offset)}
  ELSE IF tile.type = "world" THEN {FeaturesFilter(<<>>, TRUE, offset)}
  ELSE BOOLEAN

\* MatchFeaturesInTrie with FeaturesFilter and the emitter, lines 663-682:
\* one filter call, and the emit that follows admission.
MatchStep ==
  /\ pc = "match"
  /\ LET tile == TileInfo(tiles[mwmId])
         values == TileValues(tile, m_preferredLanguage, m_tokens, m_prefix)
     IN IF hitIdx > Len(values)
        THEN /\ pc' = "tile"
             /\ mwmId' = mwmId + 1
             /\ hitIdx' = 0
             /\ lastFilter' = NoFilter
             /\ mwmLocks' = MwmUnlock(mwmLocks, mwmId)
             /\ UNCHANGED <<m_results, added, hits, featureReads, indV, emitIdx>>
        ELSE IF m_cancel
        THEN Leave("thrown") /\ UNCHANGED m_results
        ELSE \E admitted \in FilterAnswers(tile, mwmId, values[hitIdx].m_featureId) :
               /\ lastFilter' = [called |-> TRUE, mwmId |-> mwmId,
                                 offset |-> values[hitIdx].m_featureId,
                                 admitted |-> admitted]
               /\ IF admitted
                  THEN /\ m_results' \in AddResultFromTrie(values[hitIdx], mwmId)
                       /\ added' = added + 1
                       /\ hits' = Append(hits, PreResult1(values[hitIdx], mwmId, m_position,
                                                          m_viewport, added + 1))
                  ELSE UNCHANGED <<m_results, added, hits>>
               /\ hitIdx' = hitIdx + 1
               /\ UNCHANGED <<pc, mwmId, indV, emitIdx, mwmLocks, featureReads>>
  /\ viewportOp' = "none"
  /\ UNCHANGED <<tiles, cacheVars, m_position, m_cancel, queryVars,
                 res, cancelAtEntry, resultsNeeded, lockPeak>>
  /\ UNCHANGED <<bestVars, notesVars>>

\* The out-of-bounds read of line 673/610 ends the process.
MatchCrash ==
  /\ pc = "match"
  /\ ~m_cancel
  /\ hitIdx <= Len(TileValues(TileInfo(tiles[mwmId]), m_preferredLanguage, m_tokens, m_prefix))
  /\ mwmId > Len(m_offsetsInViewport)
  /\ TileInfo(tiles[mwmId]).type # "world"
  /\ pc' = "crashed"
  /\ viewportOp' = "none"
  /\ UNCHANGED <<tiles, cacheVars, m_position, m_cancel, queryVars,
                 m_results, res, loopVars, cancelAtEntry, lastFilter, resultsNeeded, lockVars>>
  /\ UNCHANGED <<bestVars, notesVars>>

\* Lines 206-207 and 388-444: if (m_cancel) return; FlushResults up to the
\* emission loop.
FlushBegin ==
  /\ pc = "flush"
  /\ IF m_cancel
     THEN Leave("returned") /\ UNCHANGED <<m_results, lockPeak>>
     ELSE /\ indV' \in FlushOrders(m_results, tiles, m_preferredLanguage, m_tokens, m_prefix)
          /\ m_results' = [i \in 1..m_qCount |-> [m_results[i] EXCEPT !.items = <<>>]]
          /\ emitIdx' = 1
          /\ pc' = "emit"
          /\ LET st == LockScopes([held |-> mwmLocks, peak |-> lockPeak],
                                  PreResult2MakerLocks(MakeUniqueSet(m_results), tiles))
             IN mwmLocks' = st.held /\ lockPeak' = st.peak
          /\ featureReads' = PreResult2MakerReads(mwmLocks, MakeUniqueSet(m_results), tiles)
          /\ UNCHANGED <<mwmId, hitIdx, added, hits, lastFilter>>
  /\ viewportOp' = "none"
  /\ UNCHANGED <<tiles, cacheVars, m_position, m_cancel, queryVars,
                 res, cancelAtEntry, resultsNeeded>>
  /\ UNCHANGED <<bestVars, notesVars>>

\* Lines 447-454: the emission loop of FlushResults, then Search returns.
EmitStep ==
  /\ pc = "emit"
  /\ IF emitIdx > Len(indV) \/ m_cancel
     THEN Leave("returned") /\ UNCHANGED res
     ELSE /\ res' = Append(res, FeatureResult(indV[emitIdx]))
          /\ emitIdx' = emitIdx + 1
          /\ UNCHANGED <<pc, mwmId, hitIdx, indV, added, hits, featureReads, lastFilter,
                         mwmLocks>>
  /\ viewportOp' = "none"
  /\ UNCHANGED <<tiles, cacheVars, m_position, m_cancel, queryVars,
                 m_results, cancelAtEntry, resultsNeeded, lockPeak>>
  /\ UNCHANGED <<bestVars, notesVars>>

\* The caller has the outcome of its call (the sink's results, or the
\* exception) and is ready for its next call.
Collect ==
  /\ pc \in {"returned", "thrown", "viewportSet"}
  /\ pc' = "idle"
  /\ res' = <<>>
  /\ cancelAtEntry' = FALSE
  /\ viewportOp' = "none"
  /\ lockPeak' = 0
  /\ UNCHANGED <<tiles, cacheVars, m_position, m_cancel, queryVars, m_results, loopVars,
                 lastFilter, resultsNeeded, mwmLocks>>
  /\ UNCHANGED <<bestVars, notesVars>>

Next ==
  \/ \E k \in TileKinds : AddTile(k)
  \/ \E i \in 1..MaxTiles : RemoveTile(i)
  \/ \E r \in Viewports : SetViewport(r)
  \/ \E p \in Positions : SetPosition(p)
  \/ ClearCache
  \/ Cancel
  \/ \E q \in Queries : \E n \in 1..MaxResultsNeeded : SearchBegin(q, n)
  \/ SuggestStep
  \/ FeaturesBegin
  \/ TileStep
  \/ MatchStep
  \/ MatchCrash
  \/ FlushBegin
  \/ EmitStep
  \/ Collect

Spec == Init /\ [][Next]_vars

\* ------------------------------------------- GetBestMatchName on its own
\* Largest number of name variants of the feature.
MaxNames == 3

\* The penalties the scorer may give a name; MaxPenalty is its "worst".
Penalties == {0, 1, 2, MaxPenalty}

\* The names of the feature, by position in ForEachNameRef order.
VariantName(n) == <<"n", n>>

\* A feature with 1..MaxNames name variants under every assignment of
\* penalties to them.
InitBestName ==
  /\ QueryInitial
  /\ \E len \in 1..MaxNames : \E pen \in [1..len -> Penalties] :
       nameScores = [n \in 1..len |-> [name |-> VariantName(n), penalty |-> pen[n]]]
  /\ bestMatch = NoMatch
  /\ NotesInitial

\* One call of Query::GetBestMatchName(f, penalty, name), lines 514-526.
GetBestMatchNameCall ==
  /\ ~bestMatch.called
  /\ LET r == BestNameFinder(nameScores, Len(nameScores))
     IN bestMatch' = [called |-> TRUE, penalty |-> r.penalty, name |-> r.name]
  /\ UNCHANGED <<nameScores, queryObjectVars, notesVars>>

NextBestName == GetBestMatchNameCall

SpecBestName == InitBestName /\ [][NextBestName]_vars

\* ------------------------------------------------- editor::Notes, actions
notesOthers == <<queryObjectVars, bestVars>>

\* Notes::Save, lines 171-188: the file after Save; it is left as it was
\* when the temporary file cannot be written or renamed.
Save(notes, count, ok) == IF ok THEN [notes |-> notes, count |-> count] ELSE notesFile

\* Notes::CreateNote, lines 86-91, under m_mu.
CreateNote ==
  /\ created < MaxNotes
  /\ created' = created + 1
  /\ m_notes' = Append(m_notes, created + 1)
  /\ \E ok \in BOOLEAN : notesFile' = Save(Append(m_notes, created + 1), m_uploadedNotes, ok)
  /\ UNCHANGED <<m_uploadedNotes, future, tasks, uploadPc, launched, serverNotes,
                 uploadCalls, notesOthers>>

\* The tasks that run: started and not finished.
Running == {k \in TaskIds : tasks[k].pc \notin {"unborn", "done"}}

\* The task the next launch() starts.
NextTask == CHOOSE k \in TaskIds : tasks[k].pc = "unborn" /\ \A j \in 1..(k - 1) : tasks[j].pc # "unborn"

\* launch(), lines 95-124: async(launch::async, ...) starts the task.
Launch(k) == [tasks EXCEPT ![k].pc = "move"]

\* Lines 128-129: future.wait_for(milliseconds(0)) == future_status::ready.
FutureReady(f) == tasks[f].pc = "done"

\* Notes::Upload, line 127: the thread enters; the first call initialises the
\* static future with launch() (other threads wait for the initialisation).
UploadEnter(t) ==
  /\ uploadPc[t] = "idle"
  /\ uploadCalls < MaxUploadCalls
  /\ uploadCalls' = uploadCalls + 1
  /\ IF future = 0
     THEN future' = NextTask /\ tasks' = Launch(NextTask)
     ELSE UNCHANGED <<future, tasks>>
  /\ uploadPc' = [uploadPc EXCEPT ![t] = "wait"]
  /\ UNCHANGED <<m_notes, m_uploadedNotes, notesFile, launched, serverNotes, created,
                 notesOthers>>

\* Lines 128-129: the status of the future is read.
UploadWait(t) ==
  /\ uploadPc[t] = "wait"
  /\ uploadPc' = [uploadPc EXCEPT ![t] = IF FutureReady(future) THEN "launch" ELSE "idle"]
  /\ UNCHANGED <<m_notes, m_uploadedNotes, notesFile, future, tasks, launched,
                 serverNotes, created, uploadCalls, notesOthers>>

\* Line 130, right-hand side: launch() starts a new task.
UploadLaunch(t) ==
  /\ uploadPc[t] = "launch"
  /\ tasks' = Launch(NextTask)
  /\ launched' = [launched EXCEPT ![t] = NextTask]
  /\ uploadPc' = [uploadPc EXCEPT ![t] = "assign"]
  /\ UNCHANGED <<m_notes, m_uploadedNotes, notesFile, future, serverNotes, created,
                 uploadCalls, notesOthers>>

\* Line 130, the assignment: the future gives up the task it held, which
\* waits for that task to finish (a future from std::async), and takes the
\* new one.
UploadAssign(t) ==
  /\ uploadPc[t] = "assign"
  /\ tasks[future].pc = "done"
  /\ future' = launched[t]
  /\ launched' = [launched EXCEPT ![t] = 0]
  /\ uploadPc' = [uploadPc EXCEPT ![t] = "idle"]
  /\ UNCHANGED <<m_notes, m_uploadedNotes, notesFile, tasks, serverNotes, created,
                 uploadCalls, notesOthers>>

\* Lines 102-103: MoveNoteVectorAtomicly takes m_notes under m_mu and leaves
\* it empty.
TaskMove(k) ==
  /\ tasks[k].pc = "move"
  /\ tasks' = [tasks EXCEPT ![k].pc = "upload", ![k].notes = m_notes, ![k].i = 1]
  /\ m_notes' = <<>>
  /\ UNCHANGED <<m_uploadedNotes, notesFile, future, uploadPc, launched, serverNotes,
                 created, uploadCalls, notesOthers>>

\* Lines 107-118: one turn of the loop up to the read of m_uploadedNotes.
\* api.CreateNote either stores the note on the server or throws
\* ServerApi06Exception; after the last note the task goes on to line 121.
TaskUpload(k) ==
  /\ tasks[k].pc = "upload"
  /\ IF tasks[k].i > Len(tasks[k].notes)
     THEN /\ tasks' = [tasks EXCEPT ![k].pc = "putback"]
          /\ UNCHANGED serverNotes
     ELSE \E ok \in BOOLEAN :
            IF ok
            THEN /\ serverNotes' = Append(serverNotes, tasks[k].notes[tasks[k].i])
                 /\ tasks' = [tasks EXCEPT ![k].pc = "count", ![k].count = m_uploadedNotes]
            ELSE /\ tasks' = [tasks EXCEPT ![k].unuploaded = Append(@, tasks[k].notes[tasks[k].i]),
                                           ![k].i = @ + 1]
                 /\ UNCHANGED serverNotes
  /\ UNCHANGED <<m_notes, m_uploadedNotes, notesFile, future, uploadPc, launched,
                 created, uploadCalls, notesOthers>>

\* Line 112: the write of ++self->m_uploadedNotes, made without m_mu.
TaskCount(k) ==
  /\ tasks[k].pc = "count"
  /\ m_uploadedNotes' = tasks[k].count + 1
  /\ tasks' = [tasks EXCEPT ![k].pc = "upload", ![k].i = @ + 1]
  /\ UNCHANGED <<m_notes, notesFile, future, uploadPc, launched, serverNotes,
                 created, uploadCalls, notesOthers>>

\* Lines 121-122: the notes that failed go back to the end of m_notes, under
\* m_mu; the task is finished.
TaskPutBack(k) ==
  /\ tasks[k].pc = "putback"
  /\ m_notes' = m_notes \o tasks[k].unuploaded
  /\ tasks' = [tasks EXCEPT ![k].pc = "done"]
  /\ UNCHANGED <<m_uploadedNotes, notesFile, future, uploadPc, launched, serverNotes,
                 created, uploadCalls, notesOthers>>

NextNotes ==
  \/ CreateNote
  \/ \E t \in 1..UploadThreads : UploadEnter(t)
  \/ \E t \in 1..UploadThreads : UploadWait(t)
  \/ \E t \in 1..UploadThreads : UploadLaunch(t)
  \/ \E t \in 1..UploadThreads : UploadAssign(t)
  \/ \E k \in TaskIds : TaskMove(k)
  \/ \E k \in TaskIds : TaskUpload(k)
  \/ \E k \in TaskIds : TaskCount(k)
  \/ \E k \in TaskIds : TaskPutBack(k)

SpecNotes == Init /\ [][NextNotes]_vars

\* ================================================================ claims
FeatureIdx == {i \in 1..Len(res) : res[i].kind = "feature"}
SearchLeft == pc \in {"returned", "thrown"}

\* C1: if the cancel flag is set before Search is entered, Search returns
\* having added no feature result to the sink.
C1_CancelledBeforeEntryAddsNoFeature ==
  (SearchLeft /\ cancelAtEntry) => FeatureIdx = {}

\* C2: a cancel set while Search runs makes Search return normally; the
\* CancelException thrown by the filter never leaves Search.
C2_CancelExceptionStaysInside == pc # "thrown"

\* C3: whenever the offset cache is marked valid, its contents are what a
\* cache fill computes for the current viewport and the current tile set.
C3_ValidCacheIsCurrent ==
  m_bOffsetsCacheIsValid =>
    m_offsetsInViewport = UpdateViewportOffsets(m_viewport, m_viewportExtended, tiles)

\* C4: SetViewport(r) with the viewport already r and the cache valid changes
\* nothing and runs no fill; otherwise it sets the viewport to r, the extended
\* viewport to r scaled by 3 about its centre, refills the cache and marks it
\* valid.
C4_SetViewportEffect ==
  [][\A r \in Viewports :
       SetViewport(r) =>
         IF m_viewport = r /\ m_bOffsetsCacheIsValid
         THEN /\ UNCHANGED <<m_viewport, m_viewportExtended, m_offsetsInViewport,
                             m_bOffsetsCacheIsValid>>
              /\ viewportOp' = "nofill"
         ELSE /\ m_viewport' = r
              /\ m_viewportExtended'.minX + m_viewportExtended'.maxX = r.minX + r.maxX
              /\ m_viewportExtended'.minY + m_viewportExtended'.maxY = r.minY + r.maxY
              /\ m_viewportExtended'.maxX - m_viewportExtended'.minX = 3 * (r.maxX - r.minX)
              /\ m_viewportExtended'.maxY - m_viewportExtended'.minY = 3 * (r.maxY - r.minY)
              /\ m_offsetsInViewport' = UpdateViewportOffsets(r, m_viewportExtended', tiles)
              /\ m_bOffsetsCacheIsValid'
              /\ viewportOp' = "fill"]_vars

\* C4 witness: a SetViewport call that found its rectangle current and the
\* cache valid, over a cache that holds offsets.
C4_Witness ==
  /\ pc = "viewportSet"
  /\ viewportOp = "nofill"
  /\ \E i \in 1..Len(m_offsetsInViewport) : m_offsetsInViewport[i] # <<>>

\* C5: the feature results one Search emits hold each FeatureKey at most once.
C5_EmittedKeysDistinct ==
  \A i, j \in FeatureIdx : i # j => res[i].val.id # res[j].val.id

\* C5 witness: a Search has emitted all of several feature results, after
\* more AddResultFromTrie calls than results (a feature matched through more
\* than one language edge), each hit having been in all three queues.
C5_Witness ==
  /\ pc = "emit"
  /\ emitIdx > Len(indV)
  /\ Cardinality(FeatureIdx) >= 3
  /\ added > Cardinality(FeatureIdx)

\* A is no worse than B under each criterion and better under one.
Dominates(a, b) ==
  /\ \A c \in 1..m_qCount : ~Compare(c, b, a)
  /\ \E c \in 1..m_qCount : Compare(c, a, b)

\* C6: of two emitted candidates, one that dominates the other on the three
\* criteria is emitted before it.
C6_DominatingEmittedFirst ==
  \A i, j \in FeatureIdx : Dominates(res[i].val, res[j].val) => i < j

\* C6 witness: two emitted feature results, the earlier dominating the later,
\* and the dominating one not the better on every single criterion's own rank
\* order alone (another candidate ranks between them).
C6_Witness ==
  /\ pc = "returned"
  /\ \E i, j \in FeatureIdx : Dominates(res[i].val, res[j].val) /\ Cardinality(FeatureIdx) >= 3

\* Lexicographic order on rank triples.
TripleLess(x, y) ==
  \E i \in 1..m_qCount : (\A k \in 1..(i - 1) : x[k] = y[k]) /\ x[i] < y[i]

\* The triple in ascending order.
Ascending(x) ==
  LET lo == Min(x[1], Min(x[2], x[3]))
      hi == Max(x[1], Max(x[2], x[3]))
  IN <<lo, x[1] + x[2] + x[3] - lo - hi, hi>>

\* C7 (as claimed): the emission order is fully determined: by the sorted
\* rank triple, then by the rank on the earlier criterion, then by the order
\* of insertion by the matcher.
C7_OrderFullyDetermined ==
  \A i, j \in FeatureIdx :
    i < j =>
      \/ TripleLess(Ascending(res[i].crit), Ascending(res[j].crit))
      \/ /\ Ascending(res[i].crit) = Ascending(res[j].crit)
         /\ \/ TripleLess(res[i].crit, res[j].crit)
            \/ res[i].crit = res[j].crit /\ res[i].val.ord < res[j].val.ord

\* C7 (amended): feature results are emitted in non-decreasing lexicographic
\* order of their ascending-sorted rank triples; nothing orders two candidates
\* whose sorted triples are equal.
C7_EmittedInCombinedOrder ==
  \A i, j \in FeatureIdx :
    i < j => ~TripleLess(Ascending(res[j].crit), Ascending(res[i].crit))

\* C7 witness: emitted results with different sorted triples, one of them with
\* a triple that SortIndex had to reorder.
C7_Witness ==
  /\ pc = "returned"
  /\ \E i, j \in FeatureIdx :
       /\ i < j
       /\ TripleLess(Ascending(res[i].crit), Ascending(res[j].crit))
       /\ Ascending(res[i].crit) # res[i].crit

\* C8: after Search's initialisation the token list has at most 31 tokens, at
\* every later stage of the Search.
C8_TokenCap == Len(m_tokens) <= 31

\* C8 witness: the trie matcher stage of a Search whose query splits into
\* more than 32 tokens, the list cut to 31.
C8_Witness ==
  /\ pc = "tile"
  /\ Len(SplitUniString(NormalizeAndSimplifyString(m_rawQuery))) > 32
  /\ Len(m_tokens) = 31

\* C9: the prefix is non-empty iff the raw query's last code point is no
\* delimiter and the split gave a token; it is then the split's last token,
\* which is taken off the list before the list is cut to 31; otherwise the
\* prefix is empty and no token is taken off.
C9_PrefixRule ==
  LET split == SplitUniString(NormalizeAndSimplifyString(m_rawQuery))
      has == /\ split # <<>>
             /\ m_rawQuery # <<>>
             /\ ~IsDelimiter(m_rawQuery[Len(m_rawQuery)])
      kept == IF has THEN SubSeq(split, 1, Len(split) - 1) ELSE split
  IN /\ (m_prefix # <<>>) <=> has
     /\ has => m_prefix = split[Len(split)]
     /\ m_tokens = SubSeq(kept, 1, Min(Len(kept), 31))

\* C9 witness: a Search whose query ends in a non-delimiter, with the last
\* token of several detached as the prefix.
C9_Witness ==
  /\ pc = "suggest"
  /\ m_prefix # <<>>
  /\ m_tokens # <<>>
  /\ Len(m_tokens) < 31

\* C10: when cancel is not set, the filter admits offset o of tile t iff t is
\* a world tile or o is in tile t's offset-cache entry.
C10_FilterAdmission ==
  lastFilter.called =>
    (lastFilter.admitted <=>
       \/ TileInfo(tiles[lastFilter.mwmId]).type = "world"
       \/ /\ lastFilter.mwmId <= Len(m_offsetsInViewport)
          /\ lastFilter.offset \in Range(m_offsetsInViewport[lastFilter.mwmId]))

\* C11: each tile's offset-cache entry is strictly ascending (sorted, no
\* offset twice).
C11_EntriesStrictlyAscending ==
  \A i \in 1..Len(m_offsetsInViewport) :
    \A j \in 1..(Len(m_offsetsInViewport[i]) - 1) :
      m_offsetsInViewport[i][j] < m_offsetsInViewport[i][j + 1]

\* The offsets the geometric index returns for the viewport's cell intervals
\* at scale clamp(s_view + 7, s_lo, s_hi).
IndexOffsets(tile, viewport) ==
  LET scale == Min(Max(GetScaleLevel(viewport) + 7, tile.scaleRange[1]), tile.scaleRange[2])
      interval == CoveringIntervals(viewport)
  IN UNION {Range(IntervalOffsets(tile, interval[i], scale)) : i \in 1..Len(interval)}

\* C12: after a cache fill every tile that is no world tile and whose limit
\* rectangle intersects the extended viewport, whatever its type, has the
\* offsets the geometric index returns for the viewport as its entry.
C12_OnlyWorldAndFarTilesUnfilled ==
  (pc = "viewportSet" /\ viewportOp = "fill") =>
    \A i \in 1..Len(tiles) :
      (TileInfo(tiles[i]).type # "world"
         /\ IsIntersect(m_viewportExtended, TileInfo(tiles[i]).limitRect))
        => Range(m_offsetsInViewport[i]) = IndexOffsets(TileInfo(tiles[i]), m_viewport)

\* The stage of Search a result comes from.
KindOrder(k) == CASE k = "latlon" -> 1 [] k = "suggest" -> 2 [] k = "feature" -> 3
InSearch == pc \notin {"idle", "viewportSet"}
ResultsOfKind(k) == SelectSeq(res, LAMBDA x : x.kind = k)

\* C13: Search adds one coordinate result when the lat/lon matcher succeeds
\* on the raw query and none when it fails; the sink receives the coordinate
\* result, then the suggestions, then the feature results; the suggester has
\* run whether or not the matcher succeeded.
C13_CoordinateResultFirst ==
  InSearch =>
    /\ Len(ResultsOfKind("latlon")) = (IF MatchLatLon(m_rawQuery) THEN 1 ELSE 0)
    /\ \A i, j \in 1..Len(res) : i < j => KindOrder(res[i].kind) <= KindOrder(res[j].kind)
    /\ pc \in {"features", "tile", "match", "flush", "emit"}
         => ResultsOfKind("suggest") = SuggestStrings(m_tokens, m_prefix)

\* C13 witness: a Search whose query is a coordinate pair has returned with
\* the coordinate result, then a suggestion, then a feature result.
C13_Witness ==
  /\ pc = "returned"
  /\ Len(res) >= 3
  /\ res[1].kind = "latlon"
  /\ res[2].kind = "suggest"
  /\ res[Len(res)].kind = "feature"

\* C14: no tile lease taken by SetViewport or by Search is held once the call
\* has exited, by return or by the CancelException unwinding, and a call
\* holds at most one lease at a time.
C14_NoLeaseOutlivesCall ==
  /\ pc \in {"idle", "returned", "thrown", "viewportSet"} => mwmLocks = <<>>
  /\ Len(mwmLocks) <= 1
  /\ lockPeak <= 1

\* C14 witness: a Search over two tiles was left by the CancelException
\* thrown in the matcher, which held a lease then.
C14_Witness ==
  /\ pc = "thrown"
  /\ lockPeak = 1
  /\ Len(tiles) = 2

SuggesterRan == pc \in {"features", "tile", "match", "flush", "emit"}

\* C16 (as claimed): the suggester matches the prefix when there is no token
\* and a prefix, token[0] + " " + prefix when there is exactly one token, and
\* emits nothing otherwise.
C16_SuggesterTargets ==
  SuggesterRan =>
    ResultsOfKind("suggest") =
      (IF Len(m_tokens) = 0 /\ m_prefix # <<>> THEN MatchForSuggestions(m_prefix)
       ELSE IF Len(m_tokens) = 1
            THEN MatchForSuggestions(m_tokens[1] \o <<" ">> \o m_prefix)
            ELSE <<>>)

\* C16 (amended): as above, but with exactly one token and an empty prefix
\* the target is token[0] alone, with no space after it.
C16_SuggesterTargetsNoTrailingSpace ==
  SuggesterRan =>
    ResultsOfKind("suggest") =
      (IF Len(m_tokens) = 0 /\ m_prefix # <<>> THEN MatchForSuggestions(m_prefix)
       ELSE IF Len(m_tokens) = 1 /\ m_prefix # <<>>
            THEN MatchForSuggestions(m_tokens[1] \o <<" ">> \o m_prefix)
            ELSE IF Len(m_tokens) = 1 THEN MatchForSuggestions(m_tokens[1])
            ELSE <<>>)

\* C16 witness: the suggester ran on one token with an empty prefix and
\* emitted a suggestion.
C16_Witness ==
  /\ SuggesterRan
  /\ Len(m_tokens) = 1
  /\ m_prefix = <<>>
  /\ ResultsOfKind("suggest") # <<>>

\* The FeatureKeys of a sequence of hits.
KeysOf(items) == {items[k].id : k \in 1..Len(items)}

\* C17: none of the candidate queues holds two hits with the same FeatureKey.
C17_QueueKeysDistinct ==
  \A i \in 1..m_qCount :
    \A j, k \in 1..Len(m_results[i].items) :
      j # k => m_results[i].items[j].id # m_results[i].items[k].id

\* C17 witness: during matching, AddResultFromTrie was called more than once
\* for one feature and for more features than a queue has room for, so that
\* calls followed an eviction.
C17_Witness ==
  /\ pc = "match"
  /\ Cardinality(KeysOf(hits)) < Len(hits)
  /\ Cardinality(KeysOf(hits)) > m_results[1].maxSize
  /\ Len(m_results[1].items) = m_results[1].maxSize

\* C18: during a Search each candidate queue holds at most 2 * resultsNeeded
\* hits, and no hit the matcher passed to AddResultFromTrie that a queue does
\* not hold is better, under the queue's ordering, than a hit the queue holds.
C18_QueuesBoundedKeepBest ==
  /\ InSearch =>
       \A i \in 1..m_qCount :
         /\ m_results[i].maxSize = 2 * resultsNeeded
         /\ Len(m_results[i].items) <= 2 * resultsNeeded
  /\ pc \in {"tile", "match", "flush"} =>
       \A i \in 1..m_qCount : \A h \in 1..Len(hits) :
         hits[h].id \notin KeysOf(m_results[i].items) =>
           \A k \in 1..Len(m_results[i].items) : ~Compare(i, hits[h], m_results[i].items[k])

\* C18 witness: the matcher has finished, the rank queue is full and a hit
\* worse than all it holds is not in it, while a hit that came after more hits
\* than the queue has room for is.
C18_Witness ==
  /\ pc = "flush"
  /\ Len(m_results[1].items) = 2 * resultsNeeded
  /\ \E h \in 1..Len(hits) :
       /\ hits[h].id \notin KeysOf(m_results[1].items)
       /\ \A k \in 1..Len(m_results[1].items) : Compare(1, m_results[1].items[k], hits[h])
  /\ \E k \in 1..Len(m_results[1].items) :
       Cardinality(KeysOf(SubSeq(hits, 1, m_results[1].items[k].ord - 1))) >= 2 * resultsNeeded

\* C19: the candidate queues are empty once a Search has exited, however it
\* ended, and every hit a queue holds during a Search was inserted by the
\* matcher during that Search.
C19_QueuesNotCarriedOver ==
  /\ SearchLeft => \A i \in 1..m_qCount : m_results[i].items = <<>>
  /\ pc \in {"suggest", "features", "tile", "match", "flush"} =>
       \A i \in 1..m_qCount : Range(m_results[i].items) \subseteq Range(hits)

\* The least penalty over the name variants, and the first variant that has it.
MinPenalty(scored) ==
  CHOOSE m \in {scored[n].penalty : n \in 1..Len(scored)} :
    \A n \in 1..Len(scored) : m <= scored[n].penalty
FirstWithPenalty(scored, m) ==
  CHOOSE n \in 1..Len(scored) :
    scored[n].penalty = m /\ \A k \in 1..(n - 1) : scored[k].penalty # m

\* C20: for a feature with at least one name variant, under every assignment
\* of penalties, GetBestMatchName returns the least penalty and the first
\* name in iteration order that has it.
C20_ReturnsMinimumPenaltyName ==
  (bestMatch.called /\ nameScores # <<>>) =>
    /\ bestMatch.penalty = MinPenalty(nameScores)
    /\ bestMatch.name =
         nameScores[FirstWithPenalty(nameScores, MinPenalty(nameScores))].name

\* C21: whenever SearchFeatures passes the offset-cache entry of a tile to
\* the feature filter (line 673), the cache is marked valid and has an entry
\* for that tile.
C21_FilterGetsValidEntry ==
  pc = "match" => (m_bOffsetsCacheIsValid /\ mwmId <= Len(m_offsetsInViewport))

\* C22: during the promotion pass every read of a feature record of a tile,
\* also through the FeaturesVector kept for later hits of the tile, is made
\* while a lease on that tile is held.
C22_FeatureReadUnderLease ==
  \A k \in 1..Len(featureReads) :
    featureReads[k].tile \in Range(featureReads[k].locks)

\* C23: at most one notes upload task runs at any time: an Upload call made
\* while an earlier task has not finished starts no new task.
C23_AtMostOneUploadTask == Cardinality(Running) <= 1

Count(seq, n) == Cardinality({j \in 1..Len(seq) : seq[j] = n})

UploadsAtRest ==
  /\ Running = {}
  /\ \E k \in TaskIds : tasks[k].pc = "done"
  /\ \A t \in 1..UploadThreads : uploadPc[t] = "idle"

\* C24: no note is lost or duplicated by an upload: once the upload tasks have
\* finished, every note ever created is either on the server exactly once and
\* counted once in m_uploadedNotes, or exactly once in m_notes.
C24_NoNoteLostOrDuplicated ==
  UploadsAtRest =>
    /\ \A n \in 1..created : Count(serverNotes, n) + Count(m_notes, n) = 1
    /\ m_uploadedNotes = Len(serverNotes)


====
